---- MODULE Spec2Model ----
(***************************************************************************)
(* The ledger of the shop server (src/server.ts): five tables, one         *)
(* transaction per business operation, one HTTP route per transaction.     *)
(* Amounts and quantities (SQLite REAL, JavaScript number) are modelled    *)
(* as integers; created_at is modelled by its UTC day number.  The cart of  *)
(* the browser client (src/unnamed/part_000) is modelled next to it.        *)
(***************************************************************************)
EXTENDS Integers, Sequences, FiniteSets, TLC

VARIABLES
    db,      \* the database: products, sales, sale_items, withdrawals,
             \* stock_arrivals and the AUTOINCREMENT counters (seq)
    today,   \* the UTC day of the server's clock
    resp,    \* the last request handled: the request, the row its handler
             \* read (undo routes) and the status of the response
    nreq,    \* number of steps taken so far
    batch,   \* requests issued concurrently: each with the position of its
             \* handler (pc) and the handler's local variables (loc)
    cart,    \* the client's React state `cart`
    shown,   \* the value of `cart` in the last committed render, which the
             \* event handlers of the page have closed over
    flight   \* checkout requests sent and not yet answered

frontend == <<cart, shown, flight>>

vars == <<db, today, resp, nreq, batch, cart, shown, flight>>

\* ------------------------------------------------------------------ bounds

\* Steps (requests and day changes) explored from the initial database.
MaxRequests == 3

\* Requests in flight at the same time.
MaxConcurrent == 2

\* ------------------------------------------------------------- SQL values

\* SQL NULL / JavaScript null in an integer column.
NULL == -1

\* INSERT INTO table: the row under its new id
Insert(table, id, row) == table @@ (id :> row)

\* DELETE FROM table WHERE id NOT IN keep
Keep(table, keep) == [i \in (DOMAIN table) \cap keep |-> table[i]]

Min(S) == CHOOSE x \in S : \A y \in S : x <= y

\* A plain INTEGER PRIMARY KEY: one more than the largest id in the table
\* now, so the id of a deleted last row is given out again.
NextId_MaxRowid(table, seq) ==
    IF DOMAIN table = {} THEN 1
    ELSE (CHOOSE x \in DOMAIN table : \A y \in DOMAIN table : y <= x) + 1

\* INTEGER PRIMARY KEY AUTOINCREMENT: one more than the largest id the table
\* has ever given out, which sqlite_sequence (seq) remembers.
NextId(table, seq) == seq + 1

\* SUM(col) over the rows ids of a table, in rowid order; the SQL aggregate
\* of no rows is NULL, which the callers turn into 0 with `|| 0`.
RECURSIVE SumCol(_, _)
SumCol(val, ids) ==
    IF ids = {} THEN 0
    ELSE LET i == Min(ids) IN val[i] + SumCol(val, ids \ {i})

SqlSum(val, ids) ==
    IF ids = {} THEN [isnull |-> TRUE, v |-> 0]
    ELSE [isnull |-> FALSE, v |-> SumCol(val, ids)]

\* JavaScript `x || 0` on a SQL aggregate: NULL and 0 both give 0.
OrZero(x) == IF x.isnull \/ x.v = 0 THEN 0 ELSE x.v

\* -------------------------------------------------------------- the schema

\* Two products, as the seed or POST /api/products leaves them; the numbers
\* are small so that a sale can exhaust the stock.
InitProducts ==
    (1 :> [name |-> "Dahl (Red)", unit_type |-> "weight", cost_price |-> 3,
           selling_price |-> 5, quantity |-> 2, min_stock |-> 1])
    @@
    (2 :> [name |-> "Sugar", unit_type |-> "weight", cost_price |-> 4,
           selling_price |-> 6, quantity |-> 1, min_stock |-> 2])

\* A product id that no row of products has.
MissingProduct == Cardinality(DOMAIN InitProducts) + 1

EmptyTable == [i \in {} |-> 0]

InitDb ==
    [products       |-> InitProducts,
     sales          |-> EmptyTable,
     sale_items     |-> EmptyTable,
     withdrawals    |-> EmptyTable,
     stock_arrivals |-> EmptyTable,
     seq            |-> [sales |-> 0, sale_items |-> 0, withdrawals |-> 0,
                         stock_arrivals |-> 0]]

\* No rollback: what fn wrote before it threw stays.
Transaction_NoRollback(before, r) == r.db

\* db.transaction(fn): commit what fn did, or roll all of it back when fn threw.
Transaction(before, r) == IF r.threw THEN before ELSE r.db

\* --------------------------------------------------------- POST /api/sales

\* The margin taken from the product's list price, not from the price charged.
ItemProfit_ListPrice(item, product) ==
    (product.selling_price - product.cost_price) * item.quantity

\* `(item.selling_price - product.cost_price) * item.quantity`
ItemProfit(item, product) ==
    (item.selling_price - product.cost_price) * item.quantity

\* One unit taken per item line, whatever its quantity.
SellStock_OneUnit(products, item) ==
    [products EXCEPT ![item.product_id].quantity = @ - 1]

\* UPDATE products SET quantity = quantity - ? WHERE id = ?
SellStock(products, item) ==
    [products EXCEPT ![item.product_id].quantity = @ - item.quantity]

\* The item is refused when the stock on hand does not cover it.
ItemThrows_OutOfStock(products, item) ==
    \/ item.product_id \notin DOMAIN products
    \/ products[item.product_id].quantity < item.quantity

\* `product.cost_price` of a product that the SELECT did not find: the only
\* way an item makes the loop throw.
ItemThrows(products, item) == item.product_id \notin DOMAIN products

\* One pass of the item loop: look the product up (a missing row makes
\* product.cost_price throw), add to the totals, insert the sale_item with
\* the cost_price read now, decrement the product.
SaleItemStep(w, saleId, item) ==
    IF ItemThrows(w.db.products, item)
    THEN [w EXCEPT !.threw = TRUE]
    ELSE LET product == w.db.products[item.product_id]
             profit  == ItemProfit(item, product)
             amount  == item.selling_price * item.quantity
             itemId  == NextId(w.db.sale_items, w.db.seq.sale_items)
             row     == [sale_id |-> saleId, product_id |-> item.product_id,
                         quantity |-> item.quantity,
                         unit_price |-> item.selling_price,
                         cost_price |-> product.cost_price, profit |-> profit]
         IN [threw       |-> FALSE,
             totalAmount |-> w.totalAmount + amount,
             totalProfit |-> w.totalProfit + profit,
             db |-> [w.db EXCEPT
                       !.sale_items = Insert(@, itemId, row),
                       !.seq.sale_items = itemId,
                       !.products = SellStock(@, item)]]

RECURSIVE SaleLoop(_, _, _, _)
SaleLoop(w, saleId, items, i) ==
    IF i > Len(items) \/ w.threw THEN w
    ELSE SaleLoop(SaleItemStep(w, saleId, items[i]), saleId, items, i + 1)

\* The totals are not written back: the sale row keeps its zeros.
SaleBody_NoBackfill(d, items, day) ==
    LET saleId == NextId(d.sales, d.seq.sales)
        d0 == [d EXCEPT
                 !.sales = Insert(@, saleId, [total_amount |-> 0,
                                    total_profit |-> 0, created_at |-> day]),
                 !.seq.sales = saleId]
    IN SaleLoop([threw |-> FALSE, totalAmount |-> 0, totalProfit |-> 0,
                 db |-> d0], saleId, items, 1)

\* The body of the transaction: the sale row with zero totals, the loop,
\* then the totals written back.
SaleBody(d, items, day) ==
    LET saleId == NextId(d.sales, d.seq.sales)
        d0 == [d EXCEPT
                 !.sales = Insert(@, saleId, [total_amount |-> 0,
                                    total_profit |-> 0, created_at |-> day]),
                 !.seq.sales = saleId]
        w  == SaleLoop([threw |-> FALSE, totalAmount |-> 0, totalProfit |-> 0,
                        db |-> d0], saleId, items, 1)
    IN IF w.threw THEN w
       ELSE [w EXCEPT !.db.sales[saleId].total_amount = w.totalAmount,
                      !.db.sales[saleId].total_profit = w.totalProfit]

SaleHandler(d, items, day) ==
    LET r == SaleBody(d, items, day)
    IN [db     |-> Transaction(d, r),
        status |-> IF r.threw THEN 500 ELSE 200,
        saleId |-> IF r.threw THEN NULL ELSE NextId(d.sales, d.seq.sales)]

\* ------------------------------------------------- DELETE /api/sales/:id

\* One unit returned per item line, whatever its quantity.
RestoreStock_OneUnit(products, item) ==
    IF item.product_id \in DOMAIN products
    THEN [products EXCEPT ![item.product_id].quantity = @ + 1]
    ELSE products

\* UPDATE products SET quantity = quantity + ? WHERE id = ?
\* (no row is updated when the product is gone)
RestoreStock(products, item) ==
    IF item.product_id \in DOMAIN products
    THEN [products EXCEPT ![item.product_id].quantity = @ + item.quantity]
    ELSE products

RECURSIVE RestoreItems(_, _, _)
RestoreItems(products, sale_items, ids) ==
    IF ids = {} THEN products
    ELSE LET i == Min(ids)
         IN RestoreItems(RestoreStock(products, sale_items[i]), sale_items,
                         ids \ {i})

ItemsOfSale(d, saleId) == {i \in DOMAIN d.sale_items : d.sale_items[i].sale_id = saleId}

\* The sale is looked up first and an unknown id is answered 404.
DeleteSaleHandler_NotFound(d, saleId) ==
    LET items == ItemsOfSale(d, saleId)
    IN IF saleId \notin DOMAIN d.sales
       THEN [db |-> d, status |-> 404, read |-> {}]
       ELSE [db |-> [d EXCEPT
                       !.products   = RestoreItems(@, d.sale_items, items),
                       !.sale_items = Keep(@, DOMAIN @ \ items),
                       !.sales      = Keep(@, DOMAIN @ \ {saleId})],
             status |-> 200,
             read |-> {d.sale_items[i] : i \in items}]

DeleteSaleHandler(d, saleId) ==
    LET items == ItemsOfSale(d, saleId)
    IN [db |-> [d EXCEPT
                  !.products   = RestoreItems(@, d.sale_items, items),
                  !.sale_items = Keep(@, DOMAIN @ \ items),
                  !.sales      = Keep(@, DOMAIN @ \ {saleId})],
        status |-> 200,
        read |-> {d.sale_items[i] : i \in items}]

\* --------------------------------------------------- POST /api/withdrawals

\* Foreign keys not enforced (SQLite's default without the PRAGMA).
ForeignKeyOk_Off(d, product_id) == TRUE

\* PRAGMA foreign_keys = ON: a product_id that is not NULL must name a row
\* of products, or the INSERT throws.
ForeignKeyOk(d, product_id) == product_id = NULL \/ product_id \in DOMAIN d.products

\* The type left out of the test: a cash withdrawal keeps its product_id.
WithdrawalPid_AnyType(type, product_id) ==
    IF product_id # 0 THEN product_id ELSE NULL

\* The test for the "no product" value 0 left out.
WithdrawalPid_KeepZero(type, product_id) ==
    IF type = "item" THEN product_id ELSE NULL

\* `(type === 'item' && product_id !== 0) ? product_id : null`
WithdrawalPid(type, product_id) ==
    IF type = "item" /\ product_id # 0 THEN product_id ELSE NULL

\* JavaScript truthiness of an id: neither null nor 0.
Truthy(pid) == pid # NULL /\ pid # 0

\* The amount field read as a number of units.
WithdrawStock_Amount(products, pid, req) ==
    [products EXCEPT ![pid].quantity = @ - req.amount]

\* UPDATE products SET quantity = quantity - 1 WHERE id = ?
WithdrawStock(products, pid, req) ==
    [products EXCEPT ![pid].quantity = @ - 1]

WithdrawalBody(d, req, day) ==
    LET pid == WithdrawalPid(req.type, req.product_id)
        id  == NextId(d.withdrawals, d.seq.withdrawals)
        row == [type |-> req.type, product_id |-> pid, amount |-> req.amount,
                description |-> req.description, created_at |-> day]
        d1  == [d EXCEPT !.withdrawals = Insert(@, id, row),
                         !.seq.withdrawals = id]
    IN IF ~ForeignKeyOk(d, pid) THEN [threw |-> TRUE, db |-> d]
       ELSE IF req.type = "item" /\ Truthy(pid)
       THEN [threw |-> FALSE,
             db |-> [d1 EXCEPT !.products = WithdrawStock(@, pid, req)]]
       ELSE [threw |-> FALSE, db |-> d1]

WithdrawalHandler(d, req, day) ==
    LET r == WithdrawalBody(d, req, day)
    IN [db |-> Transaction(d, r), status |-> IF r.threw THEN 500 ELSE 200]

\* ------------------------------------------- DELETE /api/withdrawals/:id

\* The recorded amount returned instead of one unit.
ReturnWithdrawn_Amount(products, withdrawal) ==
    IF withdrawal.product_id \in DOMAIN products
    THEN [products EXCEPT ![withdrawal.product_id].quantity = @ + withdrawal.amount]
    ELSE products

\* UPDATE products SET quantity = quantity + 1 WHERE id = ?
ReturnWithdrawn(products, withdrawal) ==
    IF withdrawal.product_id \in DOMAIN products
    THEN [products EXCEPT ![withdrawal.product_id].quantity = @ + 1]
    ELSE products

DeleteWithdrawalHandler(d, id) ==
    LET exists == id \in DOMAIN d.withdrawals
        d1 == IF exists /\ d.withdrawals[id].type = "item"
                 /\ Truthy(d.withdrawals[id].product_id)
              THEN [d EXCEPT !.products = ReturnWithdrawn(@, d.withdrawals[id])]
              ELSE d
    IN [db |-> [d1 EXCEPT !.withdrawals = Keep(@, DOMAIN @ \ {id})],
        status |-> 200,
        read |-> IF exists THEN {d.withdrawals[id]} ELSE {}]

\* ------------------------------------------------ POST /api/stock-arrivals

\* Only the quantity is updated: the product keeps the cost it had.
ReceiveStock_KeepCost(products, req) ==
    IF req.product_id \in DOMAIN products
    THEN [products EXCEPT ![req.product_id].quantity = @ + req.quantity]
    ELSE products

\* The cost becomes the quantity-weighted average of the stock on hand and
\* the stock received.
ReceiveStock_Averaged(products, req) ==
    IF req.product_id \in DOMAIN products
    THEN LET old   == products[req.product_id]
             units == old.quantity + req.quantity
         IN [products EXCEPT
               ![req.product_id].quantity = units,
               ![req.product_id].cost_price =
                   IF units = 0 THEN req.cost_price
                   ELSE (old.quantity * old.cost_price
                         + req.quantity * req.cost_price) \div units]
    ELSE products

\* UPDATE products SET quantity = quantity + ?, cost_price = ? WHERE id = ?
ReceiveStock(products, req) ==
    IF req.product_id \in DOMAIN products
    THEN [products EXCEPT ![req.product_id].quantity = @ + req.quantity,
                          ![req.product_id].cost_price = req.cost_price]
    ELSE products

\* The arrival also re-prices what was sold before: the sale_items of the
\* product get the new cost and the profit that follows from it.
ArrivalBody_Reprice(d, req, day) ==
    LET id  == NextId(d.stock_arrivals, d.seq.stock_arrivals)
        row == [product_id |-> req.product_id, quantity |-> req.quantity,
                cost_price |-> req.cost_price, created_at |-> day]
        reprice(item) ==
            IF item.product_id = req.product_id
            THEN [item EXCEPT !.cost_price = req.cost_price,
                              !.profit = (item.unit_price - req.cost_price)
                                            * item.quantity]
            ELSE item
    IN IF ~ForeignKeyOk(d, req.product_id) THEN [threw |-> TRUE, db |-> d]
       ELSE [threw |-> FALSE,
             db |-> [d EXCEPT
                       !.stock_arrivals = Insert(@, id, row),
                       !.seq.stock_arrivals = id,
                       !.products = ReceiveStock(@, req),
                       !.sale_items = [i \in DOMAIN @ |-> reprice(@[i])]]]

ArrivalBody(d, req, day) ==
    LET id  == NextId(d.stock_arrivals, d.seq.stock_arrivals)
        row == [product_id |-> req.product_id, quantity |-> req.quantity,
                cost_price |-> req.cost_price, created_at |-> day]
    IN IF ~ForeignKeyOk(d, req.product_id) THEN [threw |-> TRUE, db |-> d]
       ELSE [threw |-> FALSE,
             db |-> [d EXCEPT
                       !.stock_arrivals = Insert(@, id, row),
                       !.seq.stock_arrivals = id,
                       !.products = ReceiveStock(@, req)]]

ArrivalHandler(d, req, day) ==
    LET r == ArrivalBody(d, req, day)
    IN [db |-> Transaction(d, r), status |-> IF r.threw THEN 500 ELSE 200]

\* ---------------------------------------- DELETE /api/stock-arrivals/:id

\* One unit taken back, whatever the arrival's quantity.
TakeBackStock_OneUnit(products, arrival) ==
    IF arrival.product_id \in DOMAIN products
    THEN [products EXCEPT ![arrival.product_id].quantity = @ - 1]
    ELSE products

\* UPDATE products SET quantity = quantity - ? WHERE id = ?
TakeBackStock(products, arrival) ==
    IF arrival.product_id \in DOMAIN products
    THEN [products EXCEPT ![arrival.product_id].quantity = @ - arrival.quantity]
    ELSE products

\* The undo also puts the cost back: the product gets the cost of the latest
\* arrival that remains for it, if there is one.
DeleteArrivalHandler_RestoreCost(d, id) ==
    IF id \in DOMAIN d.stock_arrivals
    THEN LET arrival == d.stock_arrivals[id]
             earlier == {a \in DOMAIN d.stock_arrivals \ {id} :
                            d.stock_arrivals[a].product_id = arrival.product_id}
             latest  == CHOOSE a \in earlier : \A b \in earlier : b <= a
             d1 == [d EXCEPT !.products = TakeBackStock(@, arrival)]
             d2 == IF earlier # {} /\ arrival.product_id \in DOMAIN d.products
                   THEN [d1 EXCEPT !.products[arrival.product_id].cost_price =
                                        d.stock_arrivals[latest].cost_price]
                   ELSE d1
         IN [db |-> [d2 EXCEPT !.stock_arrivals = Keep(@, DOMAIN @ \ {id})],
             status |-> 200, read |-> {arrival}]
    ELSE [db |-> d, status |-> 200, read |-> {}]

DeleteArrivalHandler(d, id) ==
    IF id \in DOMAIN d.stock_arrivals
    THEN LET arrival == d.stock_arrivals[id]
             d1 == [d EXCEPT !.products = TakeBackStock(@, arrival)]
         IN [db |-> [d1 EXCEPT !.stock_arrivals = Keep(@, DOMAIN @ \ {id})],
             status |-> 200, read |-> {arrival}]
    ELSE [db |-> d, status |-> 200, read |-> {}]

\* ---------------------------------------------- DELETE /api/products/:id

\* The clean-up of empty sales left out.
CleanEmptySales_None(sales, sale_items) == sales

\* DELETE FROM sales WHERE id NOT IN (SELECT DISTINCT sale_id FROM sale_items)
CleanEmptySales(sales, sale_items) ==
    Keep(sales, {sale_items[i].sale_id : i \in DOMAIN sale_items})

\* Only the sales that had an item of the product and have none left are
\* removed; a sale that never had an item stays.
DeleteProductHandler_OwnSalesOnly(d, id) ==
    LET items    == {i \in DOMAIN d.sale_items : d.sale_items[i].product_id # id}
        withs    == {i \in DOMAIN d.withdrawals : d.withdrawals[i].product_id # id}
        arrivals == {i \in DOMAIN d.stock_arrivals :
                        d.stock_arrivals[i].product_id # id}
        emptied  == {d.sale_items[i].sale_id : i \in DOMAIN d.sale_items \ items}
                       \ {d.sale_items[i].sale_id : i \in items}
    IN [db |-> [d EXCEPT
                  !.sale_items     = Keep(@, items),
                  !.withdrawals    = Keep(@, withs),
                  !.stock_arrivals = Keep(@, arrivals),
                  !.products       = Keep(@, DOMAIN @ \ {id}),
                  !.sales          = Keep(@, DOMAIN @ \ emptied)],
        status |-> 200]

\* The surviving sales are re-totalled from the items they keep.
DeleteProductHandler_Retotal(d, id) ==
    LET items    == {i \in DOMAIN d.sale_items : d.sale_items[i].product_id # id}
        withs    == {i \in DOMAIN d.withdrawals : d.withdrawals[i].product_id # id}
        arrivals == {i \in DOMAIN d.stock_arrivals :
                        d.stock_arrivals[i].product_id # id}
        kept      == CleanEmptySales(d.sales, Keep(d.sale_items, items))
        of(s)     == {i \in items : d.sale_items[i].sale_id = s}
        retotal(s) ==
            [d.sales[s] EXCEPT
               !.total_amount = SumCol([i \in of(s) |->
                                   d.sale_items[i].unit_price
                                      * d.sale_items[i].quantity], of(s)),
               !.total_profit = SumCol([i \in of(s) |->
                                   d.sale_items[i].profit], of(s))]
    IN [db |-> [d EXCEPT
                  !.sale_items     = Keep(@, items),
                  !.withdrawals    = Keep(@, withs),
                  !.stock_arrivals = Keep(@, arrivals),
                  !.products       = Keep(@, DOMAIN @ \ {id}),
                  !.sales          = [s \in DOMAIN kept |-> retotal(s)]],
        status |-> 200]

DeleteProductHandler(d, id) ==
    LET items    == {i \in DOMAIN d.sale_items : d.sale_items[i].product_id # id}
        withs    == {i \in DOMAIN d.withdrawals : d.withdrawals[i].product_id # id}
        arrivals == {i \in DOMAIN d.stock_arrivals :
                        d.stock_arrivals[i].product_id # id}
    IN [db |-> [d EXCEPT
                  !.sale_items     = Keep(@, items),
                  !.withdrawals    = Keep(@, withs),
                  !.stock_arrivals = Keep(@, arrivals),
                  !.products       = Keep(@, DOMAIN @ \ {id}),
                  !.sales          = CleanEmptySales(@, Keep(d.sale_items, items))],
        status |-> 200]

\* ----------------------------------------------- PATCH /api/products/:id

\* The name in the request body is written too.
PatchProductHandler_Rename(d, id, body) ==
    [db |-> IF id \in DOMAIN d.products
            THEN [d EXCEPT !.products[id].name          = body.name,
                           !.products[id].cost_price    = body.cost_price,
                           !.products[id].selling_price = body.selling_price,
                           !.products[id].quantity      = body.quantity,
                           !.products[id].min_stock     = body.min_stock]
            ELSE d,
     status |-> 200]

PatchProductHandler(d, id, body) ==
    [db |-> IF id \in DOMAIN d.products
            THEN [d EXCEPT !.products[id].cost_price    = body.cost_price,
                           !.products[id].selling_price = body.selling_price,
                           !.products[id].quantity      = body.quantity,
                           !.products[id].min_stock     = body.min_stock]
            ELSE d,
     status |-> 200]

\* --------------------------------------------------- POST /api/reset/daily

SalesOfDay(d, day) == {s \in DOMAIN d.sales : d.sales[s].created_at = day}

\* Only the cash withdrawals of the day.
WithdrawalsOfDay_CashOnly(d, day) ==
    {w \in DOMAIN d.withdrawals :
        d.withdrawals[w].created_at = day /\ d.withdrawals[w].type = "cash"}

WithdrawalsOfDay(d, day) ==
    {w \in DOMAIN d.withdrawals : d.withdrawals[w].created_at = day}

\* The day's sales are deleted and their sale_items are left behind.
ResetDailyHandler_KeepItems(d, day) ==
    LET gone == SalesOfDay(d, day)
    IN [db |-> [d EXCEPT
                  !.sales       = Keep(@, DOMAIN @ \ gone),
                  !.withdrawals = Keep(@, DOMAIN @ \ WithdrawalsOfDay(d, day))],
        status |-> 200]

\* The date test left out: the sales and withdrawals of every day go.
ResetDailyHandler_AllDays(d, day) ==
    [db |-> [d EXCEPT !.sale_items  = EmptyTable,
                      !.sales       = EmptyTable,
                      !.withdrawals = EmptyTable],
     status |-> 200]

\* The withdrawals are kept: only the day's sales and their items go.
ResetDailyHandler_SalesOnly(d, day) ==
    LET gone == SalesOfDay(d, day)
    IN [db |-> [d EXCEPT
                  !.sale_items  = Keep(@, {i \in DOMAIN @ : @[i].sale_id \notin gone}),
                  !.sales       = Keep(@, DOMAIN @ \ gone)],
        status |-> 200]

ResetDailyHandler(d, day) ==
    LET gone == SalesOfDay(d, day)
    IN [db |-> [d EXCEPT
                  !.sale_items  = Keep(@, {i \in DOMAIN @ : @[i].sale_id \notin gone}),
                  !.sales       = Keep(@, DOMAIN @ \ gone),
                  !.withdrawals = Keep(@, DOMAIN @ \ WithdrawalsOfDay(d, day))],
        status |-> 200]

\* -------------------------------------------------------- POST /api/query

\* Statements a client may send, with what SQLite does for each.
AddStockSql   == "UPDATE products SET quantity = quantity + 5 WHERE id = 1"
DropItemsSql  == "DELETE FROM sale_items"
SelectSql     == "SELECT * FROM products"

\* `const { sql } = req.body; if (!sql)`: the field is absent or the empty
\* string.
NoSql(body) == "sql" \notin DOMAIN body \/ body.sql = ""

\* db.prepare(sql).all() or .run(): the statement acts on the tables.
RunSql(d, sql) ==
    CASE sql = AddStockSql ->
            IF 1 \in DOMAIN d.products
            THEN [d EXCEPT !.products[1].quantity = @ + 5]
            ELSE d
      [] sql = DropItemsSql -> [d EXCEPT !.sale_items = EmptyTable]
      [] sql = SelectSql -> d

\* Only reading statements are let through; the others are refused.
QueryHandler_ReadOnly(d, body) ==
    IF NoSql(body) THEN [db |-> d, status |-> 400]
    ELSE IF body.sql = SelectSql THEN [db |-> RunSql(d, body.sql), status |-> 200]
    ELSE [db |-> d, status |-> 403]

QueryHandler(d, body) ==
    IF NoSql(body) THEN [db |-> d, status |-> 400]
    ELSE [db |-> RunSql(d, body.sql), status |-> 200]

\* ------------------------------------------------------ GET /api/dashboard

Dashboard(d, day) ==
    LET sales == SalesOfDay(d, day)
        total_sales  == SqlSum([s \in sales |-> d.sales[s].total_amount], sales)
        total_profit == SqlSum([s \in sales |-> d.sales[s].total_profit], sales)
        withs == WithdrawalsOfDay(d, day)
        total == SqlSum([w \in withs |-> d.withdrawals[w].amount], withs)
    IN [salesCount    |-> Cardinality(sales),
        totalSales    |-> OrZero(total_sales),
        totalProfit   |-> OrZero(total_profit) - OrZero(total),
        lowStockCount |-> Cardinality({p \in DOMAIN d.products :
                              d.products[p].quantity <= d.products[p].min_stock})]

\* ------------------------------------------------------------ the requests

SaleItems ==
    { [product_id |-> 1, quantity |-> 1, selling_price |-> 5],
      [product_id |-> 2, quantity |-> 2, selling_price |-> 7],
      [product_id |-> MissingProduct, quantity |-> 1, selling_price |-> 5] }

SaleRequests == UNION { [1..n -> SaleItems] : n \in 0..2 }

\* Item withdrawals of a product with a zero, a negative and a large amount,
\* of "no product" (0) and of a missing product; cash withdrawals with and
\* without a product_id in the body.
WithdrawalRequests ==
    [type : {"item"}, product_id : {1}, amount : {-1, 0, 9},
     description : {"spoilage"}]
    \cup [type : {"item"}, product_id : {0, MissingProduct}, amount : {9},
          description : {"spoilage"}]
    \cup [type : {"cash"}, product_id : {0, 1}, amount : {4},
          description : {"owner draw"}]

ArrivalRequests ==
    [product_id : {1, MissingProduct}, quantity : {2}, cost_price : {2, 6}]

PatchBodies ==
    { [name |-> "Renamed", cost_price |-> 1, selling_price |-> 9,
       quantity |-> 0, min_stock |-> 0] }

ProductIds == {1, 2, MissingProduct}

\* Bodies of POST /api/query: without an sql field, with an empty one, and
\* with each of the statements.
QueryBodies ==
    { [query |-> SelectSql] }
    \cup [sql : {"", AddStockSql, DropItemsSql, SelectSql}]

\* ------------------------------------------------------------- the actions

Init ==
    /\ db = InitDb
    /\ today = 1
    /\ resp = [op |-> "none", status |-> 0]
    /\ nreq = 0
    /\ batch = <<>>
    /\ cart = <<>> /\ shown = <<>> /\ flight = <<>>

PostSales(items) ==
    /\ nreq < MaxRequests
    /\ LET r == SaleHandler(db, items, today)
       IN /\ db' = r.db
          /\ resp' = [op |-> "POST /api/sales", items |-> items,
                      status |-> r.status, saleId |-> r.saleId]
    /\ nreq' = nreq + 1
    /\ UNCHANGED <<today, batch, frontend>>

DeleteSale(id) ==
    /\ nreq < MaxRequests
    /\ LET r == DeleteSaleHandler(db, id)
       IN /\ db' = r.db
          /\ resp' = [op |-> "DELETE /api/sales", id |-> id,
                      status |-> r.status, read |-> r.read]
    /\ nreq' = nreq + 1
    /\ UNCHANGED <<today, batch, frontend>>

PostWithdrawals(req) ==
    /\ nreq < MaxRequests
    /\ LET r == WithdrawalHandler(db, req, today)
       IN /\ db' = r.db
          /\ resp' = [op |-> "POST /api/withdrawals", req |-> req,
                      status |-> r.status]
    /\ nreq' = nreq + 1
    /\ UNCHANGED <<today, batch, frontend>>

DeleteWithdrawal(id) ==
    /\ nreq < MaxRequests
    /\ LET r == DeleteWithdrawalHandler(db, id)
       IN /\ db' = r.db
          /\ resp' = [op |-> "DELETE /api/withdrawals", id |-> id,
                      status |-> r.status, read |-> r.read]
    /\ nreq' = nreq + 1
    /\ UNCHANGED <<today, batch, frontend>>

PostStockArrivals(req) ==
    /\ nreq < MaxRequests
    /\ LET r == ArrivalHandler(db, req, today)
       IN /\ db' = r.db
          /\ resp' = [op |-> "POST /api/stock-arrivals", req |-> req,
                      status |-> r.status]
    /\ nreq' = nreq + 1
    /\ UNCHANGED <<today, batch, frontend>>

DeleteStockArrival(id) ==
    /\ nreq < MaxRequests
    /\ LET r == DeleteArrivalHandler(db, id)
       IN /\ db' = r.db
          /\ resp' = [op |-> "DELETE /api/stock-arrivals", id |-> id,
                      status |-> r.status, read |-> r.read]
    /\ nreq' = nreq + 1
    /\ UNCHANGED <<today, batch, frontend>>

DeleteProduct(id) ==
    /\ nreq < MaxRequests
    /\ LET r == DeleteProductHandler(db, id)
       IN /\ db' = r.db
          /\ resp' = [op |-> "DELETE /api/products", id |-> id,
                      status |-> r.status]
    /\ nreq' = nreq + 1
    /\ UNCHANGED <<today, batch, frontend>>

PatchProduct(id, body) ==
    /\ nreq < MaxRequests
    /\ LET r == PatchProductHandler(db, id, body)
       IN /\ db' = r.db
          /\ resp' = [op |-> "PATCH /api/products", id |-> id, body |-> body,
                      status |-> r.status]
    /\ nreq' = nreq + 1
    /\ UNCHANGED <<today, batch, frontend>>

ResetDaily ==
    /\ nreq < MaxRequests
    /\ LET r == ResetDailyHandler(db, today)
       IN /\ db' = r.db
          /\ resp' = [op |-> "POST /api/reset/daily", status |-> r.status]
    /\ nreq' = nreq + 1
    /\ UNCHANGED <<today, batch, frontend>>

PostQuery(body) ==
    /\ nreq < MaxRequests
    /\ LET r == QueryHandler(db, body)
       IN /\ db' = r.db
          /\ resp' = [op |-> "POST /api/query", body |-> body,
                      status |-> r.status]
    /\ nreq' = nreq + 1
    /\ UNCHANGED <<today, batch, frontend>>

\* Midnight (UTC) passes.
Tick ==
    /\ nreq < MaxRequests
    /\ today' = today + 1
    /\ nreq' = nreq + 1
    /\ resp' = [op |-> "none", status |-> 0]
    /\ UNCHANGED <<db, batch, frontend>>

Next ==
    \/ \E items \in SaleRequests : PostSales(items)
    \/ \E id \in 1..(db.seq.sales + 1) : DeleteSale(id)
    \/ \E req \in WithdrawalRequests : PostWithdrawals(req)
    \/ \E id \in 1..(db.seq.withdrawals + 1) : DeleteWithdrawal(id)
    \/ \E req \in ArrivalRequests : PostStockArrivals(req)
    \/ \E id \in 1..(db.seq.stock_arrivals + 1) : DeleteStockArrival(id)
    \/ \E id \in ProductIds : DeleteProduct(id)
    \/ \E id \in {2, MissingProduct}, body \in PatchBodies : PatchProduct(id, body)
    \/ ResetDaily
    \/ Tick

Spec == Init /\ [][Next]_vars

\* The ledger routes alone: sales, withdrawals, stock arrivals and the undo
\* of each.
NextLedger ==
    \/ \E items \in SaleRequests : PostSales(items)
    \/ \E id \in 1..(db.seq.sales + 1) : DeleteSale(id)
    \/ \E req \in WithdrawalRequests : PostWithdrawals(req)
    \/ \E id \in 1..(db.seq.withdrawals + 1) : DeleteWithdrawal(id)
    \/ \E req \in ArrivalRequests : PostStockArrivals(req)
    \/ \E id \in 1..(db.seq.stock_arrivals + 1) : DeleteStockArrival(id)
    \/ Tick

SpecLedger == Init /\ [][NextLedger]_vars

\* Every route but the deletion of a product (and the ad-hoc SQL route).
NextNoDelete ==
    \/ NextLedger
    \/ \E id \in {2, MissingProduct}, body \in PatchBodies : PatchProduct(id, body)
    \/ ResetDaily

SpecNoDelete == Init /\ [][NextNoDelete]_vars

\* Every route, the ad-hoc SQL route included.
NextQuery ==
    \/ Next
    \/ \E body \in QueryBodies : PostQuery(body)

SpecQuery == Init /\ [][NextQuery]_vars

\* ----------------------------------------------------- the client's cart

\* The product list the page has loaded (fetchData): id, name and list price
\* of the products the shop starts with.
ProductList ==
    { [id |-> p, name |-> InitProducts[p].name,
       selling_price |-> InitProducts[p].selling_price] : p \in DOMAIN InitProducts }

InCart(c, productId) == \E i \in DOMAIN c : c[i].product_id = productId

\* A new entry is appended whether or not the product is in the cart.
addToCart_Append(c, product) ==
    Append(c, [product_id |-> product.id, name |-> product.name,
               quantity |-> 1, selling_price |-> product.selling_price])

addToCart(c, product) ==
    IF InCart(c, product.id)
    THEN [i \in DOMAIN c |->
             IF c[i].product_id = product.id
             THEN [c[i] EXCEPT !.quantity = @ + 1]
             ELSE c[i]]
    ELSE Append(c, [product_id |-> product.id, name |-> product.name,
                    quantity |-> 1, selling_price |-> product.selling_price])

updateCartItem(c, productId, field, value) ==
    [i \in DOMAIN c |->
        IF c[i].product_id = productId THEN [c[i] EXCEPT ![field] = value]
        ELSE c[i]]

removeFromCart(c, productId) ==
    SelectSeq(c, LAMBDA item : item.product_id # productId)

\* The fields and values the inputs of a cart line send to updateCartItem:
\* the quantity or the price, 0 for an emptied input.
CartFields == {"quantity", "selling_price"}
CartValues == {0, 3}

\* A click on a product of the list.  The handler works on the cart of the
\* render it belongs to; React commits the new state before the next event.
AddToCart(product) ==
    /\ nreq < MaxRequests
    /\ cart' = addToCart(shown, product)
    /\ shown' = cart'
    /\ resp' = [op |-> "addToCart", id |-> product.id, status |-> 0]
    /\ nreq' = nreq + 1
    /\ UNCHANGED <<db, today, batch, flight>>

\* A change of the Qty or Price input of a cart line.
UpdateCartItem(productId, field, value) ==
    /\ nreq < MaxRequests
    /\ InCart(shown, productId)
    /\ cart' = updateCartItem(shown, productId, field, value)
    /\ shown' = cart'
    /\ resp' = [op |-> "updateCartItem", id |-> productId, status |-> 0]
    /\ nreq' = nreq + 1
    /\ UNCHANGED <<db, today, batch, flight>>

\* A click on the bin of a cart line.
RemoveFromCart(productId) ==
    /\ nreq < MaxRequests
    /\ InCart(shown, productId)
    /\ cart' = removeFromCart(shown, productId)
    /\ shown' = cart'
    /\ resp' = [op |-> "removeFromCart", id |-> productId, status |-> 0]
    /\ nreq' = nreq + 1
    /\ UNCHANGED <<db, today, batch, flight>>

\* handleCheckout up to its `await fetch`: nothing is sent for an empty
\* cart, otherwise the cart goes out as the items of a POST /api/sales.
HandleCheckout ==
    /\ nreq < MaxRequests
    /\ Len(shown) # 0
    /\ flight' = Append(flight, [items |-> shown])
    /\ resp' = [op |-> "handleCheckout", items |-> shown, status |-> 0]
    /\ nreq' = nreq + 1
    /\ UNCHANGED <<db, today, batch, cart, shown>>

Without(f, k) == [i \in 1..(Len(f) - 1) |-> IF i < k THEN f[i] ELSE f[i + 1]]

\* handleCheckout after the await.  Either the server handled the sale and
\* its answer arrived (res.ok for status 200), or fetch rejected, the
\* request having reached the server or not.  setCart([]) runs outside an
\* event handler: the page is rendered again later.
CheckoutAnswered(k, arrived, answered) ==
    /\ k \in DOMAIN flight
    /\ arrived \/ ~answered
    /\ LET items == flight[k].items
           r     == SaleHandler(db, items, today)
           ok    == answered /\ r.status = 200
       IN /\ db' = IF arrived THEN r.db ELSE db
          /\ cart' = IF ok THEN <<>> ELSE cart
          /\ resp' = [op |-> "checkout answered", items |-> items,
                      status |-> IF answered THEN r.status ELSE 0,
                      ok |-> ok, before |-> cart]
    /\ flight' = Without(flight, k)
    /\ UNCHANGED <<today, nreq, batch, shown>>

\* React commits a render for a state change made outside an event.
Render ==
    /\ shown # cart
    /\ shown' = cart
    /\ UNCHANGED <<db, today, resp, nreq, batch, cart, flight>>

\* The client at work, while products may be deleted from elsewhere.
NextCart ==
    \/ \E product \in ProductList : AddToCart(product)
    \/ \E item \in {shown[i] : i \in DOMAIN shown}, field \in CartFields,
          value \in CartValues : UpdateCartItem(item.product_id, field, value)
    \/ \E item \in {shown[i] : i \in DOMAIN shown} : RemoveFromCart(item.product_id)
    \/ HandleCheckout
    \/ \E k \in DOMAIN flight, arrived \in BOOLEAN, answered \in BOOLEAN :
          CheckoutAnswered(k, arrived, answered)
    \/ Render
    \/ \E id \in DOMAIN InitProducts : DeleteProduct(id)

SpecCart == Init /\ [][NextCart]_vars

\* ------------------------------------------------- requests in flight

\* What a route does to the database when its handler runs from its first
\* statement to its last.
Handle(d, r, day) ==
    CASE r.kind = "sale"           -> SaleHandler(d, r.arg, day).db
      [] r.kind = "withdrawal"     -> WithdrawalHandler(d, r.arg, day).db
      [] r.kind = "arrival"        -> ArrivalHandler(d, r.arg, day).db
      [] r.kind = "undoSale"       -> DeleteSaleHandler(d, r.arg).db
      [] r.kind = "undoWithdrawal" -> DeleteWithdrawalHandler(d, r.arg).db
      [] r.kind = "undoArrival"    -> DeleteArrivalHandler(d, r.arg).db
      [] r.kind = "deleteProduct"  -> DeleteProductHandler(d, r.arg).db

\* The handlers statement by statement.  A frame f = [req, pc, loc] is one
\* request: pc = "pending" before its handler is called, "done" after the
\* response, otherwise the statement it executes next; loc holds the
\* handler's local variables, loc.snap the database at BEGIN.  Each operator
\* executes one statement and gives the database and the frame after it.
Done(d, f) == [db |-> d, frame |-> [f EXCEPT !.pc = "done"]]

\* The callback threw: ROLLBACK, then the catch block answers 500.
Throw(f) == [db |-> f.loc.snap, frame |-> [f EXCEPT !.pc = "done"]]

SaleStmt(d, f, day) ==
    LET items == f.req.arg
        loc   == f.loc
    IN CASE f.pc = "pending" ->
              LET saleId == NextId(d.sales, d.seq.sales)
              IN [db |-> [d EXCEPT
                            !.sales = Insert(@, saleId, [total_amount |-> 0,
                                         total_profit |-> 0, created_at |-> day]),
                            !.seq.sales = saleId],
                  frame |-> [f EXCEPT !.pc = "loop",
                               !.loc = [snap |-> d, saleId |-> saleId, i |-> 1,
                                        totalAmount |-> 0, totalProfit |-> 0]]]
         [] f.pc = "loop" /\ loc.i > Len(items) ->
              Done([d EXCEPT !.sales[loc.saleId].total_amount = loc.totalAmount,
                             !.sales[loc.saleId].total_profit = loc.totalProfit], f)
         [] f.pc = "loop" /\ loc.i <= Len(items) ->
              IF ItemThrows(d.products, items[loc.i])
              THEN Throw(f)
              ELSE [db |-> d,
                    frame |-> [f EXCEPT !.pc = "insert_item",
                          !.loc = [product |-> d.products[items[loc.i].product_id]]
                                  @@ loc]]
         [] f.pc = "insert_item" ->
              LET item   == items[loc.i]
                  profit == ItemProfit(item, loc.product)
                  amount == item.selling_price * item.quantity
                  itemId == NextId(d.sale_items, d.seq.sale_items)
                  row    == [sale_id |-> loc.saleId, product_id |-> item.product_id,
                             quantity |-> item.quantity,
                             unit_price |-> item.selling_price,
                             cost_price |-> loc.product.cost_price,
                             profit |-> profit]
              IN [db |-> [d EXCEPT !.sale_items = Insert(@, itemId, row),
                                   !.seq.sale_items = itemId],
                  frame |-> [f EXCEPT !.pc = "update_product",
                               !.loc = [snap |-> loc.snap, saleId |-> loc.saleId,
                                        i |-> loc.i,
                                        totalAmount |-> loc.totalAmount + amount,
                                        totalProfit |-> loc.totalProfit + profit]]]
         [] f.pc = "update_product" ->
              [db |-> [d EXCEPT !.products = SellStock(@, items[loc.i])],
               frame |-> [f EXCEPT !.pc = "loop", !.loc.i = @ + 1]]

WithdrawalStmt(d, f, day) ==
    LET req == f.req.arg
        pid == WithdrawalPid(req.type, req.product_id)
    IN CASE f.pc = "pending" ->
              LET id  == NextId(d.withdrawals, d.seq.withdrawals)
                  row == [type |-> req.type, product_id |-> pid,
                          amount |-> req.amount, description |-> req.description,
                          created_at |-> day]
                  d1  == [d EXCEPT !.withdrawals = Insert(@, id, row),
                                   !.seq.withdrawals = id]
              IN IF ~ForeignKeyOk(d, pid) THEN Done(d, f)
                 ELSE IF req.type = "item" /\ Truthy(pid)
                 THEN [db |-> d1,
                       frame |-> [f EXCEPT !.pc = "update", !.loc = [snap |-> d]]]
                 ELSE Done(d1, f)
         [] f.pc = "update" ->
              Done([d EXCEPT !.products = WithdrawStock(@, pid, req)], f)

ArrivalStmt(d, f, day) ==
    LET req == f.req.arg
    IN CASE f.pc = "pending" ->
              LET id  == NextId(d.stock_arrivals, d.seq.stock_arrivals)
                  row == [product_id |-> req.product_id, quantity |-> req.quantity,
                          cost_price |-> req.cost_price, created_at |-> day]
              IN IF ~ForeignKeyOk(d, req.product_id) THEN Done(d, f)
                 ELSE [db |-> [d EXCEPT !.stock_arrivals = Insert(@, id, row),
                                        !.seq.stock_arrivals = id],
                       frame |-> [f EXCEPT !.pc = "update", !.loc = [snap |-> d]]]
         [] f.pc = "update" ->
              Done([d EXCEPT !.products = ReceiveStock(@, req)], f)

UndoSaleStmt(d, f) ==
    LET saleId == f.req.arg
    IN CASE f.pc = "pending" ->
              [db |-> d,
               frame |-> [f EXCEPT !.pc = "restore",
                            !.loc = [snap |-> d,
                                     items |-> Keep(d.sale_items, ItemsOfSale(d, saleId))]]]
         [] f.pc = "restore" /\ DOMAIN f.loc.items # {} ->
              LET i == Min(DOMAIN f.loc.items)
              IN [db |-> [d EXCEPT !.products = RestoreStock(@, f.loc.items[i])],
                  frame |-> [f EXCEPT !.loc.items = Keep(@, DOMAIN @ \ {i})]]
         [] f.pc = "restore" /\ DOMAIN f.loc.items = {} ->
              [db |-> [d EXCEPT !.sale_items =
                                   Keep(@, DOMAIN @ \ ItemsOfSale(d, saleId))],
               frame |-> [f EXCEPT !.pc = "delete_sale"]]
         [] f.pc = "delete_sale" ->
              Done([d EXCEPT !.sales = Keep(@, DOMAIN @ \ {saleId})], f)

UndoWithdrawalStmt(d, f) ==
    LET id == f.req.arg
    IN CASE f.pc = "pending" ->
              IF id \in DOMAIN d.withdrawals /\ d.withdrawals[id].type = "item"
                 /\ Truthy(d.withdrawals[id].product_id)
              THEN [db |-> d,
                    frame |-> [f EXCEPT !.pc = "update",
                                 !.loc = [snap |-> d, withdrawal |-> d.withdrawals[id]]]]
              ELSE [db |-> d,
                    frame |-> [f EXCEPT !.pc = "delete", !.loc = [snap |-> d]]]
         [] f.pc = "update" ->
              [db |-> [d EXCEPT !.products = ReturnWithdrawn(@, f.loc.withdrawal)],
               frame |-> [f EXCEPT !.pc = "delete"]]
         [] f.pc = "delete" ->
              Done([d EXCEPT !.withdrawals = Keep(@, DOMAIN @ \ {id})], f)

UndoArrivalStmt(d, f) ==
    LET id == f.req.arg
    IN CASE f.pc = "pending" ->
              IF id \in DOMAIN d.stock_arrivals
              THEN [db |-> d,
                    frame |-> [f EXCEPT !.pc = "update",
                                 !.loc = [snap |-> d, arrival |-> d.stock_arrivals[id]]]]
              ELSE Done(d, f)
         [] f.pc = "update" ->
              LET arrival == f.loc.arrival
              IN [db |-> [d EXCEPT !.products = TakeBackStock(@, arrival)],
                  frame |-> [f EXCEPT !.pc = "delete"]]
         [] f.pc = "delete" ->
              Done([d EXCEPT !.stock_arrivals = Keep(@, DOMAIN @ \ {id})], f)

DeleteProductStmt(d, f) ==
    LET id == f.req.arg
    IN CASE f.pc = "pending" ->
              [db |-> [d EXCEPT !.sale_items =
                          Keep(@, {i \in DOMAIN @ : @[i].product_id # id})],
               frame |-> [f EXCEPT !.pc = "delete_withdrawals",
                            !.loc = [snap |-> d]]]
         [] f.pc = "delete_withdrawals" ->
              [db |-> [d EXCEPT !.withdrawals =
                          Keep(@, {i \in DOMAIN @ : @[i].product_id # id})],
               frame |-> [f EXCEPT !.pc = "delete_arrivals"]]
         [] f.pc = "delete_arrivals" ->
              [db |-> [d EXCEPT !.stock_arrivals =
                          Keep(@, {i \in DOMAIN @ : @[i].product_id # id})],
               frame |-> [f EXCEPT !.pc = "delete_product"]]
         [] f.pc = "delete_product" ->
              [db |-> [d EXCEPT !.products = Keep(@, DOMAIN @ \ {id})],
               frame |-> [f EXCEPT !.pc = "clean_sales"]]
         [] f.pc = "clean_sales" ->
              Done([d EXCEPT !.sales = CleanEmptySales(@, d.sale_items)], f)

Stmt(d, f, day) ==
    CASE f.req.kind = "sale"           -> SaleStmt(d, f, day)
      [] f.req.kind = "withdrawal"     -> WithdrawalStmt(d, f, day)
      [] f.req.kind = "arrival"        -> ArrivalStmt(d, f, day)
      [] f.req.kind = "undoSale"       -> UndoSaleStmt(d, f)
      [] f.req.kind = "undoWithdrawal" -> UndoWithdrawalStmt(d, f)
      [] f.req.kind = "undoArrival"    -> UndoArrivalStmt(d, f)
      [] f.req.kind = "deleteProduct"  -> DeleteProductStmt(d, f)

InProgress(f) == f.pc \notin {"pending", "done"}

\* A handler that would give the event loop back between two statements
\* (an asynchronous driver): the next request is taken up at any time.
CanStart_Yielding(b) == TRUE

\* Every handler is a synchronous function and better-sqlite3 blocks: the
\* event loop calls the next request's handler only after the one running
\* has returned.
CanStart(b) == \A k \in DOMAIN b : ~InProgress(b[k])

\* The ledger the concurrent requests meet: one sale of both products, one
\* item withdrawal and one stock arrival are on record.
ConcDb ==
    LET d1 == Handle(InitDb, [kind |-> "sale", arg |->
                 << [product_id |-> 1, quantity |-> 1, selling_price |-> 5],
                    [product_id |-> 2, quantity |-> 2, selling_price |-> 7] >>], 1)
        d2 == Handle(d1, [kind |-> "withdrawal", arg |->
                 [type |-> "item", product_id |-> 1, amount |-> 9,
                  description |-> "spoilage"]], 1)
    IN Handle(d2, [kind |-> "arrival", arg |->
                 [product_id |-> 1, quantity |-> 2, cost_price |-> 6]], 1)

ConcRequests ==
    { [kind |-> "sale", arg |->
          << [product_id |-> 1, quantity |-> 1, selling_price |-> 5] >>],
      [kind |-> "sale", arg |->
          << [product_id |-> 2, quantity |-> 2, selling_price |-> 7],
             [product_id |-> 1, quantity |-> 1, selling_price |-> 5] >>],
      [kind |-> "sale", arg |->
          << [product_id |-> 1, quantity |-> 1, selling_price |-> 5],
             [product_id |-> MissingProduct, quantity |-> 1, selling_price |-> 5] >>],
      [kind |-> "withdrawal", arg |->
          [type |-> "item", product_id |-> 1, amount |-> 9,
           description |-> "spoilage"]],
      [kind |-> "arrival", arg |->
          [product_id |-> 1, quantity |-> 2, cost_price |-> 2]],
      [kind |-> "undoSale", arg |-> 1],
      [kind |-> "undoWithdrawal", arg |-> 1],
      [kind |-> "undoArrival", arg |-> 1],
      [kind |-> "deleteProduct", arg |-> 1] }

InitConcurrent ==
    /\ db = ConcDb
    /\ today = 1
    /\ resp = [op |-> "none", status |-> 0]
    /\ nreq = 0
    /\ cart = <<>> /\ shown = <<>> /\ flight = <<>>
    /\ \E n \in 1..MaxConcurrent :
          \E reqs \in [1..n -> ConcRequests] :
             batch = [k \in 1..n |-> [req |-> reqs[k], pc |-> "pending",
                                      loc |-> [snap |-> ConcDb]]]

\* The event loop calls the handler of a request that has arrived; the
\* handler executes its first statement.
Start(k) ==
    /\ batch[k].pc = "pending"
    /\ CanStart(batch)
    /\ LET r == Stmt(db, batch[k], today)
       IN db' = r.db /\ batch' = [batch EXCEPT ![k] = r.frame]
    /\ UNCHANGED <<today, resp, nreq, frontend>>

\* A handler that has started executes its next statement.
Continue(k) ==
    /\ InProgress(batch[k])
    /\ LET r == Stmt(db, batch[k], today)
       IN db' = r.db /\ batch' = [batch EXCEPT ![k] = r.frame]
    /\ UNCHANGED <<today, resp, nreq, frontend>>

NextConcurrent ==
    \/ \E k \in DOMAIN batch : Start(k)
    \/ \E k \in DOMAIN batch : Continue(k)

SpecConcurrent == InitConcurrent /\ [][NextConcurrent]_vars

\* ---------------------------------------------------------------- claims

\* The sum of f[x] over x in S.
RECURSIVE Total(_, _)
Total(f, S) ==
    IF S = {} THEN 0
    ELSE LET x == CHOOSE y \in S : TRUE IN f[x] + Total(f, S \ {x})

\* The quantity a sale request asks of product p, over all its items.
Requested(items, p) ==
    Total([i \in DOMAIN items |->
              IF items[i].product_id = p THEN items[i].quantity ELSE 0],
          DOMAIN items)

Quantity(d, p) == d.products[p].quantity

SaleDone == resp'.op = "POST /api/sales" /\ resp'.status = 200

\* C1: a successful POST /api/sales lowers each product's quantity by exactly
\* the sum of the quantities of the request items naming it (a product named
\* by several items included) and leaves every other product's quantity, and
\* the set of products, as it was.
C1_SaleDecrementsStock ==
    [][SaleDone =>
          /\ DOMAIN db'.products = DOMAIN db.products
          /\ \A p \in DOMAIN db.products :
                Quantity(db', p) = Quantity(db, p) - Requested(resp'.items, p)]_vars

\* A sale went through in which one product is named by two items.
C1_Witness ==
    /\ resp.op = "POST /api/sales" /\ resp.status = 200
    /\ \E i, j \in DOMAIN resp.items :
          i < j /\ resp.items[i].product_id = resp.items[j].product_id
    /\ \E p \in DOMAIN db.products : Requested(resp.items, p) = 0

\* C2: after a successful POST /api/sales the new sale row has
\* total_profit = sum of (item.selling_price - product.cost_price) * quantity
\* and total_amount = sum of item.selling_price * quantity over the request
\* items, one sale_item is stored per request item (in request order), and
\* each stored sale_item has profit = (unit_price - cost_price) * quantity.
C2_SaleTotals ==
    [][SaleDone =>
          LET items  == resp'.items
              saleId == resp'.saleId
              rowOf(k) == db'.sale_items[db.seq.sale_items + k]
              cost(k)  == db.products[items[k].product_id].cost_price
          IN /\ saleId \in DOMAIN db'.sales /\ saleId \notin DOMAIN db.sales
             /\ db'.sales[saleId].total_profit =
                   Total([k \in DOMAIN items |->
                            (items[k].selling_price - cost(k)) * items[k].quantity],
                         DOMAIN items)
             /\ db'.sales[saleId].total_amount =
                   Total([k \in DOMAIN items |->
                            items[k].selling_price * items[k].quantity],
                         DOMAIN items)
             /\ DOMAIN db'.sale_items \ DOMAIN db.sale_items =
                   {db.seq.sale_items + k : k \in DOMAIN items}
             /\ ItemsOfSale(db', saleId) =
                   {db.seq.sale_items + k : k \in DOMAIN items}
             /\ \A k \in DOMAIN items :
                   /\ rowOf(k).product_id = items[k].product_id
                   /\ rowOf(k).quantity = items[k].quantity
                   /\ rowOf(k).unit_price = items[k].selling_price
                   /\ rowOf(k).cost_price = cost(k)
                   /\ rowOf(k).profit =
                         (rowOf(k).unit_price - rowOf(k).cost_price) * rowOf(k).quantity]_vars

\* A sale of two different products went through, charged at a price that is
\* not the list price, with a profit that is not zero.
C2_Witness ==
    /\ resp.op = "POST /api/sales" /\ resp.status = 200
    /\ Len(resp.items) = 2
    /\ resp.items[1].product_id # resp.items[2].product_id
    /\ \E k \in DOMAIN resp.items :
          resp.items[k].selling_price #
              db.products[resp.items[k].product_id].selling_price
    /\ db.sales[resp.saleId].total_profit > 0

\* C3: a sale that has just been recorded, when undone by
\* DELETE /api/sales/:id before anything else touches its products, leaves
\* the products table as it was before the sale, and neither the sale row
\* nor any of its sale_items exists afterwards.
C3_UndoSaleRestoresStock ==
    [][SaleDone =>
          LET undo == DeleteSaleHandler(db', resp'.saleId)
          IN /\ undo.status = 200
             /\ undo.db.products = db.products
             /\ resp'.saleId \notin DOMAIN undo.db.sales
             /\ ItemsOfSale(undo.db, resp'.saleId) = {}
             /\ undo.db.sales = db.sales
             /\ undo.db.sale_items = db.sale_items]_vars

\* The first request recorded a sale with items and the second undid it:
\* the stock is back at its initial value and the ledger is empty.
C3_Witness ==
    /\ nreq = 2
    /\ resp.op = "DELETE /api/sales" /\ resp.id = 1 /\ resp.status = 200
    /\ db.seq.sales = 1 /\ db.seq.sale_items = 2
    /\ db.products = InitProducts
    /\ DOMAIN db.sales = {} /\ DOMAIN db.sale_items = {}

ItemWithdrawalDone ==
    /\ resp'.op = "POST /api/withdrawals" /\ resp'.status = 200
    /\ resp'.req.type = "item" /\ resp'.req.product_id # 0

\* C4: every successful POST /api/withdrawals of type 'item' that names a
\* product lowers that product's quantity by exactly 1, whatever the amount
\* field holds, and changes no other product.
C4_ItemWithdrawalTakesOne ==
    [][ItemWithdrawalDone =>
          /\ resp'.req.product_id \in DOMAIN db.products
          /\ db'.products =
                [db.products EXCEPT ![resp'.req.product_id].quantity = @ - 1]]_vars

\* An item withdrawal went through whose amount is larger than the stock
\* the product had.
C4_Witness ==
    /\ resp.op = "POST /api/withdrawals" /\ resp.status = 200
    /\ resp.req.type = "item" /\ resp.req.product_id \in DOMAIN db.products
    /\ resp.req.amount > Quantity(db, resp.req.product_id) + 1

\* C5: in every reachable state the dashboard's totalProfit is the sum of
\* total_profit over the sales created today minus the sum of amount over
\* all withdrawals created today, cash and item alike; an empty sum is 0 and
\* the records of other days do not count.
C5_DashboardProfit ==
    LET sales == {s \in DOMAIN db.sales : db.sales[s].created_at = today}
        withs == {w \in DOMAIN db.withdrawals :
                     db.withdrawals[w].created_at = today}
    IN Dashboard(db, today).totalProfit =
          Total([s \in sales |-> db.sales[s].total_profit], sales)
          - Total([w \in withs |-> db.withdrawals[w].amount], withs)

\* Yesterday's sale made a profit, today holds an item withdrawal with an
\* amount and no sale.
C5_Witness ==
    /\ \E s \in DOMAIN db.sales :
          db.sales[s].created_at < today /\ db.sales[s].total_profit # 0
    /\ \E w \in DOMAIN db.withdrawals :
          /\ db.withdrawals[w].created_at = today
          /\ db.withdrawals[w].type = "item"
          /\ db.withdrawals[w].amount # 0
    /\ SalesOfDay(db, today) = {}

ProductDeleted == resp'.op = "DELETE /api/products" /\ resp'.status = 200

\* C6: after DELETE /api/products/:id the product row is gone, no sale_item,
\* withdrawal or stock_arrival names that product, no sale is left without
\* sale_items, and every sale that still has a sale_item still exists.
C6_DeleteProductCascades ==
    [][ProductDeleted =>
          LET id == resp'.id
          IN /\ id \notin DOMAIN db'.products
             /\ \A i \in DOMAIN db'.sale_items : db'.sale_items[i].product_id # id
             /\ \A w \in DOMAIN db'.withdrawals : db'.withdrawals[w].product_id # id
             /\ \A a \in DOMAIN db'.stock_arrivals :
                   db'.stock_arrivals[a].product_id # id
             /\ \A s \in DOMAIN db'.sales : ItemsOfSale(db', s) # {}
             /\ \A s \in DOMAIN db.sales :
                   (\E i \in DOMAIN db.sale_items :
                       /\ db.sale_items[i].sale_id = s
                       /\ db.sale_items[i].product_id # id)
                   => s \in DOMAIN db'.sales /\ db'.sales[s] = db.sales[s]]_vars

\* A product was deleted that one sale sold alone and another sale sold
\* together with a second product: the second sale is still there.
C6_Witness ==
    /\ resp.op = "DELETE /api/products" /\ resp.status = 200
    /\ resp.id \notin DOMAIN db.products
    /\ Cardinality(DOMAIN db.products) = 1
    /\ db.seq.sales = 2 /\ Cardinality(DOMAIN db.sales) = 1
    /\ db.seq.sale_items = 3 /\ Cardinality(DOMAIN db.sale_items) = 1
    /\ \A s \in DOMAIN db.sales : \A i \in ItemsOfSale(db, s) :
          db.sales[s].total_amount >
              db.sale_items[i].unit_price * db.sale_items[i].quantity

SaleFailsAt(d, items) ==
    \E k \in DOMAIN items : items[k].product_id \notin DOMAIN d.products

\* C7: a POST /api/sales in which some item names a product that does not
\* exist is answered with an error and leaves the database exactly as it
\* was: no sale row, no sale_items, no quantity decremented; and no sale
\* request answered with an error changes the database.
C7_FailedSaleRollsBack ==
    [][resp'.op = "POST /api/sales" =>
          /\ SaleFailsAt(db, resp'.items) => resp'.status = 500
          /\ resp'.status # 200 => db' = db]_vars

\* A sale failed at its second item, after a first item that names a
\* product in stock.
C7_Witness ==
    /\ resp.op = "POST /api/sales" /\ resp.status = 500
    /\ Len(resp.items) = 2
    /\ resp.items[1].product_id \in DOMAIN db.products
    /\ resp.items[2].product_id \notin DOMAIN db.products

AllDone(b) == \A k \in DOMAIN b : b[k].pc = "done"

Orders(n) ==
    {p \in [1..n -> 1..n] : \A i, j \in 1..n : i # j => p[i] # p[j]}

\* The database after the requests of b have been handled one after the
\* other in the given order, each from its first statement to its last.
RECURSIVE Serial(_, _, _, _)
Serial(d, b, order, i) ==
    IF i > Len(order) THEN d
    ELSE Serial(Handle(d, b[order[i]].req, today), b, order, i + 1)

SerialOutcomes(b) == {Serial(ConcDb, b, p, 1) : p \in Orders(Len(b))}

\* Every ledger row has its stock change and every stock change its row:
\* each product's quantity is its initial quantity plus its arrivals minus
\* its sale_items minus its item withdrawals, and no row names a product
\* or a sale that is gone.
StockMatchesLedger(d) ==
    \A p \in DOMAIN d.products :
          LET arr == {a \in DOMAIN d.stock_arrivals :
                         d.stock_arrivals[a].product_id = p}
              its == {i \in DOMAIN d.sale_items : d.sale_items[i].product_id = p}
              wds == {w \in DOMAIN d.withdrawals :
                         d.withdrawals[w].type = "item"
                         /\ d.withdrawals[w].product_id = p}
          IN Quantity(d, p) =
                InitProducts[p].quantity
                + Total([a \in arr |-> d.stock_arrivals[a].quantity], arr)
                - Total([i \in its |-> d.sale_items[i].quantity], its)
                - Cardinality(wds)

ReferencesHold(d) ==
    /\ \A i \in DOMAIN d.sale_items :
          /\ d.sale_items[i].product_id \in DOMAIN d.products
          /\ d.sale_items[i].sale_id \in DOMAIN d.sales
    /\ \A w \in DOMAIN d.withdrawals :
          d.withdrawals[w].product_id \in DOMAIN d.products \cup {NULL}
    /\ \A a \in DOMAIN d.stock_arrivals :
          d.stock_arrivals[a].product_id \in DOMAIN d.products

LedgerSettled(d) == StockMatchesLedger(d) /\ ReferencesHold(d)

\* C8: however the requests in flight are taken up, a handler starts (and so
\* reads the database) only while no other handler is between two of its
\* statements and every ledger row written or removed has its stock change;
\* and once all of them are answered the database is the one that handling
\* them one after the other, in some order, produces.
C8_RequestsAreAtomic ==
    [][/\ \A k \in DOMAIN batch :
             (batch[k].pc = "pending" /\ batch'[k].pc # "pending") =>
                /\ LedgerSettled(db)
                /\ \A j \in DOMAIN batch : ~InProgress(batch[j])
       /\ (batch # <<>> /\ AllDone(batch')) => db' \in SerialOutcomes(batch')]_vars

\* Two sales of the same product were in flight together, both are answered
\* and the product has lost the quantity of both.
C8_Witness ==
    /\ Len(batch) = 2 /\ AllDone(batch)
    /\ \A k \in DOMAIN batch :
          /\ batch[k].req.kind = "sale"
          /\ \A i \in DOMAIN batch[k].req.arg : batch[k].req.arg[i].product_id = 1
    /\ Quantity(db, 1) =
          Quantity(ConcDb, 1) - Requested(batch[1].req.arg, 1)
                              - Requested(batch[2].req.arg, 1)
    /\ Cardinality(DOMAIN db.sales) = Cardinality(DOMAIN ConcDb.sales) + 2

CashWithdrawalPosted ==
    resp'.op = "POST /api/withdrawals" /\ resp'.req.type = "cash"

\* C9: a POST /api/withdrawals of type 'cash' succeeds, inserts exactly one
\* withdrawal row holding the given amount and description and a NULL
\* product_id, also when the request carries a product_id, and leaves the
\* products table unchanged.
C9_CashWithdrawal ==
    [][CashWithdrawalPosted =>
          LET id == db.seq.withdrawals + 1
          IN /\ resp'.status = 200
             /\ DOMAIN db'.withdrawals = DOMAIN db.withdrawals \cup {id}
             /\ id \notin DOMAIN db.withdrawals
             /\ \A w \in DOMAIN db.withdrawals :
                   db'.withdrawals[w] = db.withdrawals[w]
             /\ db'.withdrawals[id].type = "cash"
             /\ db'.withdrawals[id].amount = resp'.req.amount
             /\ db'.withdrawals[id].description = resp'.req.description
             /\ db'.withdrawals[id].product_id = NULL
             /\ db'.products = db.products]_vars

\* A cash withdrawal went through whose request named a product.
C9_Witness ==
    /\ resp.op = "POST /api/withdrawals" /\ resp.status = 200
    /\ resp.req.type = "cash" /\ resp.req.product_id \in DOMAIN db.products
    /\ db.withdrawals[db.seq.withdrawals].product_id = NULL

WithdrawalUndone ==
    resp'.op = "DELETE /api/withdrawals" /\ resp'.id \in DOMAIN db.withdrawals

\* C10: DELETE /api/withdrawals/:id on an existing withdrawal removes that
\* row and no other; for an 'item' withdrawal with a product it raises that
\* product's quantity by exactly 1 and changes no other product, for any
\* other withdrawal it changes no product; and an item withdrawal that has
\* just been recorded, when undone, leaves the products as before it.
C10_UndoWithdrawal ==
    [][/\ WithdrawalUndone =>
             LET w == db.withdrawals[resp'.id]
             IN /\ resp'.status = 200
                /\ db'.withdrawals =
                      [x \in DOMAIN db.withdrawals \ {resp'.id} |-> db.withdrawals[x]]
                /\ db'.products =
                      IF w.type = "item" /\ w.product_id # NULL
                      THEN [db.products EXCEPT ![w.product_id].quantity = @ + 1]
                      ELSE db.products
       /\ ItemWithdrawalDone =>
             DeleteWithdrawalHandler(db', db'.seq.withdrawals).db.products
                = db.products]_vars

\* The first request withdrew an item with an amount other than 1 and the
\* second undid it: the stock is back at its initial value.
C10_Witness ==
    /\ nreq = 2
    /\ resp.op = "DELETE /api/withdrawals" /\ resp.id = 1
    /\ \E w \in resp.read :
          w.type = "item" /\ w.product_id \in DOMAIN db.products /\ w.amount # 1
    /\ db.seq.withdrawals = 1 /\ DOMAIN db.withdrawals = {}
    /\ db.products = InitProducts

ArrivalDone ==
    /\ resp'.op = "POST /api/stock-arrivals"
    /\ resp'.req.product_id \in DOMAIN db.products

\* C11: a POST /api/stock-arrivals for an existing product succeeds, inserts
\* exactly one stock_arrival row holding the request's product, quantity and
\* cost_price, raises that product's quantity by exactly the arrival's
\* quantity and sets its cost_price to the arrival's cost_price whatever the
\* cost_price and quantity were before (no averaging); the product's
\* selling_price, min_stock and name and every other product are unchanged.
C11_ArrivalOverwritesCost ==
    [][ArrivalDone =>
          LET req == resp'.req
              id  == db.seq.stock_arrivals + 1
              P   == req.product_id
          IN /\ resp'.status = 200
             /\ id \notin DOMAIN db.stock_arrivals
             /\ DOMAIN db'.stock_arrivals = DOMAIN db.stock_arrivals \cup {id}
             /\ \A a \in DOMAIN db.stock_arrivals :
                   db'.stock_arrivals[a] = db.stock_arrivals[a]
             /\ db'.stock_arrivals[id].product_id = P
             /\ db'.stock_arrivals[id].quantity = req.quantity
             /\ db'.stock_arrivals[id].cost_price = req.cost_price
             /\ DOMAIN db'.products = DOMAIN db.products
             /\ db'.products[P].quantity = db.products[P].quantity + req.quantity
             /\ db'.products[P].cost_price = req.cost_price
             /\ db'.products[P].selling_price = db.products[P].selling_price
             /\ db'.products[P].min_stock = db.products[P].min_stock
             /\ db'.products[P].name = db.products[P].name
             /\ \A p \in DOMAIN db.products \ {P} :
                   db'.products[p] = db.products[p]]_vars

\* A second arrival for a product in stock went through at a cost other than
\* the cost of the first: the product carries the cost of the second, which
\* is not the quantity-weighted average of what was on hand and what came.
C11_Witness ==
    /\ resp.op = "POST /api/stock-arrivals" /\ resp.status = 200
    /\ db.seq.stock_arrivals = 2 /\ DOMAIN db.stock_arrivals = {1, 2}
    /\ db.stock_arrivals[1].product_id = db.stock_arrivals[2].product_id
    /\ db.stock_arrivals[1].cost_price # db.stock_arrivals[2].cost_price
    /\ LET P == db.stock_arrivals[2].product_id
       IN /\ P \in DOMAIN db.products
          /\ db.products[P].quantity > db.stock_arrivals[2].quantity
          /\ db.products[P].cost_price = db.stock_arrivals[2].cost_price

ArrivalUndone ==
    resp'.op = "DELETE /api/stock-arrivals" /\ resp'.id \in DOMAIN db.stock_arrivals

\* C12: DELETE /api/stock-arrivals/:id on an existing arrival succeeds,
\* removes that row and no other, lowers the product's quantity by the
\* arrival's recorded quantity and changes nothing else of any product: the
\* cost_price stays what it was, so after arrivals A1 (cost c1) and A2
\* (cost c2) for a product, undoing A2 leaves its cost_price at c2.
C12_UndoArrivalKeepsCost ==
    [][ArrivalUndone =>
          LET arrival == db.stock_arrivals[resp'.id]
              P       == arrival.product_id
          IN /\ resp'.status = 200
             /\ db'.stock_arrivals =
                   [a \in DOMAIN db.stock_arrivals \ {resp'.id} |->
                       db.stock_arrivals[a]]
             /\ P \in DOMAIN db.products
             /\ db'.products =
                   [db.products EXCEPT ![P].quantity = @ - arrival.quantity]
             /\ db'.products[P].cost_price = db.products[P].cost_price]_vars

\* Two arrivals for one product at different costs, then the second undone:
\* the first arrival remains and the product still carries the cost of the
\* second.
C12_Witness ==
    /\ nreq = 3
    /\ resp.op = "DELETE /api/stock-arrivals" /\ resp.id = 2
    /\ DOMAIN db.stock_arrivals = {1}
    /\ \E A2 \in resp.read :
          LET A1 == db.stock_arrivals[1]
          IN /\ A2.product_id = A1.product_id
             /\ A2.cost_price # A1.cost_price
             /\ db.products[A1.product_id].cost_price = A2.cost_price
             /\ db.products[A1.product_id].quantity =
                   InitProducts[A1.product_id].quantity + A1.quantity

Oversold(d, items, p) ==
    Requested(items, p) > 0 /\ Requested(items, p) > Quantity(d, p)

\* A sale of existing products is posted that asks for more of some product
\* than there is in stock.
OversoldSalePosted ==
    /\ resp'.op = "POST /api/sales"
    /\ ~SaleFailsAt(db, resp'.items)
    /\ \E p \in DOMAIN db.products : Oversold(db, resp'.items, p)

\* C13: POST /api/sales makes no stock-sufficiency check: a sale of existing
\* products that asks for more than the stock on hand succeeds, every item is
\* recorded with its full quantity, and every product's quantity is lowered
\* by the full quantity asked, so that it goes below zero.
C13_NoStockCheck ==
    [][OversoldSalePosted =>
          LET items == resp'.items
          IN /\ resp'.status = 200
             /\ resp'.saleId \in DOMAIN db'.sales
             /\ \A k \in DOMAIN items :
                   LET row == db'.sale_items[db.seq.sale_items + k]
                   IN /\ row.sale_id = resp'.saleId
                      /\ row.product_id = items[k].product_id
                      /\ row.quantity = items[k].quantity
             /\ \A p \in DOMAIN db.products :
                   Quantity(db', p) = Quantity(db, p) - Requested(items, p)
             /\ \A p \in DOMAIN db.products :
                   Oversold(db, items, p) => Quantity(db', p) < 0]_vars

\* The first request sold more of a product than the shop had: the sale is
\* recorded with the full quantity and the product's quantity is negative.
C13_Witness ==
    /\ nreq = 1
    /\ resp.op = "POST /api/sales" /\ resp.status = 200
    /\ \E i \in DOMAIN db.sale_items :
          LET row == db.sale_items[i]
          IN /\ row.sale_id = resp.saleId
             /\ row.quantity > InitProducts[row.product_id].quantity
             /\ db.products[row.product_id].quantity =
                   InitProducts[row.product_id].quantity - row.quantity
             /\ db.products[row.product_id].quantity < 0

\* The requests that come after a sale and touch the product's stock or
\* cost: a stock arrival, the undo of one, a PATCH, a withdrawal, another sale.
LaterRequest ==
    resp'.op \in {"POST /api/stock-arrivals", "DELETE /api/stock-arrivals",
                  "PATCH /api/products", "POST /api/withdrawals",
                  "POST /api/sales"}

\* C14: the cost_price and profit of a sale_item are a snapshot taken when
\* the sale is made: a later stock arrival, undo of an arrival, PATCH of a
\* product, withdrawal or other sale leaves every existing sale_item row and
\* every existing sale row (with its total_amount and total_profit) in place
\* and unchanged.
C14_SaleItemsAreSnapshots ==
    [][LaterRequest =>
          /\ \A i \in DOMAIN db.sale_items :
                i \in DOMAIN db'.sale_items /\ db'.sale_items[i] = db.sale_items[i]
          /\ \A s \in DOMAIN db.sales :
                s \in DOMAIN db'.sales /\ db'.sales[s] = db.sales[s]]_vars

\* An arrival has just changed the cost of a product sold before: the
\* sale_item still holds the cost the product had at the sale, and the profit
\* and the sale's total computed from that cost.
C14_Witness ==
    /\ resp.op = "POST /api/stock-arrivals" /\ resp.status = 200
    /\ \E i \in DOMAIN db.sale_items :
          LET item == db.sale_items[i]
          IN /\ item.product_id = resp.req.product_id
             /\ db.products[item.product_id].cost_price = resp.req.cost_price
             /\ item.cost_price # resp.req.cost_price
             /\ item.cost_price = InitProducts[item.product_id].cost_price
             /\ item.profit = (item.unit_price - item.cost_price) * item.quantity
             /\ ItemsOfSale(db, item.sale_id) = {i}
             /\ db.sales[item.sale_id].total_profit = item.profit

\* An item withdrawal or a stock arrival is posted that names a product id
\* (other than the "no product" 0 of a withdrawal) which does not exist.
MissingProductPosted ==
    \/ /\ resp'.op = "POST /api/withdrawals"
       /\ resp'.req.type = "item"
       /\ resp'.req.product_id # 0
       /\ resp'.req.product_id \notin DOMAIN db.products
    \/ /\ resp'.op = "POST /api/stock-arrivals"
       /\ resp'.req.product_id \notin DOMAIN db.products

\* C15: a POST /api/withdrawals of type 'item' or a POST /api/stock-arrivals
\* that names a product id which does not exist is answered with an error
\* (status 500) and leaves every table, and the id counters, unchanged.
C15_MissingProductRejected ==
    [][MissingProductPosted => resp'.status = 500 /\ db' = db]_vars

\* A sale was recorded and afterwards an item withdrawal for a product that
\* does not exist was refused: no withdrawal row exists, no withdrawal id
\* was used up, and the stock is what the sale left.
C15_Witness ==
    /\ resp.op = "POST /api/withdrawals" /\ resp.status = 500
    /\ resp.req.type = "item" /\ resp.req.product_id \notin DOMAIN db.products
    /\ db.seq.sales = 1 /\ DOMAIN db.sales = {1}
    /\ db.seq.withdrawals = 0 /\ db.withdrawals = EmptyTable
    /\ db.seq.stock_arrivals = 0 /\ db.stock_arrivals = EmptyTable
    /\ \A p \in DOMAIN InitProducts :
          /\ p \in DOMAIN db.products
          /\ Quantity(db, p) = InitProducts[p].quantity
                                  - Total([i \in DOMAIN db.sale_items |->
                                             IF db.sale_items[i].product_id = p
                                             THEN db.sale_items[i].quantity ELSE 0],
                                          DOMAIN db.sale_items)
          /\ db.products[p].cost_price = InitProducts[p].cost_price

\* C16: POST /api/query answers 400 and executes nothing when the sql field
\* is missing or empty, and otherwise executes the statement whatever it
\* says (status 200): a single such request raises a product's quantity
\* with no ledger row to account for it, or removes the sale_items under
\* the sales that total them.
C16_QueryRunsAnything ==
    [][resp'.op = "POST /api/query" =>
          LET body == resp'.body
          IN IF "sql" \notin DOMAIN body \/ body.sql = ""
             THEN resp'.status = 400 /\ db' = db
             ELSE /\ resp'.status = 200
                  /\ (body.sql = AddStockSql /\ 1 \in DOMAIN db.products) =>
                        /\ db'.products =
                              [db.products EXCEPT ![1].quantity = @ + 5]
                        /\ StockMatchesLedger(db) => ~StockMatchesLedger(db')
                  /\ body.sql = DropItemsSql =>
                        /\ DOMAIN db'.sale_items = {}
                        /\ db'.sales = db.sales
                        /\ db'.products = db.products]_vars

\* One request to /api/query on the initial database: no sale, withdrawal
\* or arrival was ever recorded, and the stock is not the initial stock.
C16_Witness ==
    /\ nreq = 1
    /\ resp.op = "POST /api/query" /\ resp.status = 200
    /\ db.seq = InitDb.seq
    /\ DOMAIN db.products = DOMAIN InitProducts
    /\ \E p \in DOMAIN db.products :
          Quantity(db, p) # InitProducts[p].quantity
    /\ ~StockMatchesLedger(db)

\* C17: in every state reached through sales, item and cash withdrawals,
\* stock arrivals and the undo of each (no PATCH, reset, product deletion or
\* /api/query), the products are the initial ones and each product's
\* quantity is its initial quantity plus the quantities of its existing
\* stock_arrivals minus the quantities of its existing sale_items minus the
\* number of existing item withdrawals that name it.
C17_StockMatchesLedger ==
    /\ DOMAIN db.products = DOMAIN InitProducts
    /\ StockMatchesLedger(db)

\* A product has a sale_item, a stock arrival and an item withdrawal on
\* record at the same time, and its quantity is not the initial one.
C17_Witness ==
    \E p \in DOMAIN db.products :
       /\ \E i \in DOMAIN db.sale_items : db.sale_items[i].product_id = p
       /\ \E a \in DOMAIN db.stock_arrivals : db.stock_arrivals[a].product_id = p
       /\ \E w \in DOMAIN db.withdrawals :
             db.withdrawals[w].type = "item" /\ db.withdrawals[w].product_id = p
       /\ Quantity(db, p) # InitProducts[p].quantity

\* An undo route is called with an id that names no row of its table: the
\* entry was undone before, or the id was never given out.
UndoRepeated ==
    \/ resp'.op = "DELETE /api/sales" /\ resp'.id \notin DOMAIN db.sales
    \/ resp'.op = "DELETE /api/withdrawals" /\ resp'.id \notin DOMAIN db.withdrawals
    \/ resp'.op = "DELETE /api/stock-arrivals"
          /\ resp'.id \notin DOMAIN db.stock_arrivals

\* C18: DELETE /api/sales/:id, DELETE /api/withdrawals/:id and
\* DELETE /api/stock-arrivals/:id for an id that was already undone or never
\* existed answer success (200) and change nothing: no stock is restored or
\* deducted a second time.
C18_UndoIsIdempotent ==
    [][UndoRepeated => resp'.status = 200 /\ db' = db]_vars

\* A sale with items was recorded, undone, and its undo asked again: the
\* second undo found no item to restore and the stock is the initial stock,
\* restored once.
C18_Witness ==
    /\ nreq = 3 /\ today = 1
    /\ resp.op = "DELETE /api/sales" /\ resp.id = 1 /\ resp.status = 200
    /\ resp.read = {}
    /\ db.seq.sales = 1 /\ db.seq.sale_items > 0
    /\ db.sales = EmptyTable /\ db.sale_items = EmptyTable
    /\ db.products = InitProducts

\* The sale_items a sale of `items` on database d would store for product P
\* all carry the cost c and the profit computed from it.
SoldAtCost(d, items, P, c) ==
    LET r == SaleHandler(d, items, today)
    IN r.status = 200 =>
          \A k \in DOMAIN items :
             items[k].product_id = P =>
                LET row == r.db.sale_items[d.seq.sale_items + k]
                IN /\ row.cost_price = c
                   /\ row.profit = (items[k].selling_price - c) * items[k].quantity

\* C19: a sale stores the product's cost_price as it is at the moment of the
\* sale. After a stock arrival for P with cost c, a sale of P stores
\* cost_price c and profit (selling_price - c) * quantity, also when the
\* arrival is undone before the sale; the cost of an existing product is
\* changed by no request other than an arrival for it or a PATCH of it; and
\* every sale stores, for each item, the cost its product had just before.
C19_SaleUsesCurrentCost ==
    [][/\ ArrivalDone =>
             LET P  == resp'.req.product_id
                 c  == resp'.req.cost_price
                 id == db'.seq.stock_arrivals
             IN \A items \in SaleRequests :
                   /\ SoldAtCost(db', items, P, c)
                   /\ SoldAtCost(DeleteArrivalHandler(db', id).db, items, P, c)
       /\ \A p \in DOMAIN db.products \cap DOMAIN db'.products :
             db'.products[p].cost_price # db.products[p].cost_price =>
                \/ resp'.op = "POST /api/stock-arrivals" /\ resp'.req.product_id = p
                \/ resp'.op = "PATCH /api/products" /\ resp'.id = p
       /\ SaleDone =>
             \A k \in DOMAIN resp'.items :
                LET row == db'.sale_items[db.seq.sale_items + k]
                    c   == db.products[resp'.items[k].product_id].cost_price
                IN /\ row.cost_price = c
                   /\ row.profit = (row.unit_price - c) * row.quantity]_vars

\* An arrival changed a product's cost, the arrival was undone, then the
\* product was sold: no arrival is on record, the stock is the initial stock
\* less the sale, and the sale_item carries the cost of the undone arrival.
C19_Witness ==
    /\ nreq = 3
    /\ resp.op = "POST /api/sales" /\ resp.status = 200
    /\ db.seq.stock_arrivals = 1 /\ db.stock_arrivals = EmptyTable
    /\ \E i \in DOMAIN db.sale_items :
          LET item == db.sale_items[i]
              P    == item.product_id
          IN /\ ItemsOfSale(db, resp.saleId) = {i}
             /\ Quantity(db, P) = InitProducts[P].quantity - item.quantity
             /\ item.cost_price # InitProducts[P].cost_price
             /\ item.cost_price = db.products[P].cost_price
             /\ item.profit = (item.unit_price - item.cost_price) * item.quantity

\* C20: in every state reached without product deletion (and without
\* /api/query), every existing sale's total_profit is the sum of the profit
\* of its sale_items and its total_amount the sum of unit_price * quantity
\* of its sale_items.
C20_SaleTotalsMatchItems ==
    \A s \in DOMAIN db.sales :
       LET its == ItemsOfSale(db, s)
       IN /\ db.sales[s].total_profit =
                Total([i \in its |-> db.sale_items[i].profit], its)
          /\ db.sales[s].total_amount =
                Total([i \in its |-> db.sale_items[i].unit_price
                                        * db.sale_items[i].quantity], its)

\* Two sales are on record, one of them with two items and totals that are
\* not zero, and a product they sold has since been patched.
C20_Witness ==
    /\ resp.op = "PATCH /api/products" /\ resp.id \in DOMAIN db.products
    /\ Cardinality(DOMAIN db.sales) = 2
    /\ \E s \in DOMAIN db.sales :
          /\ Cardinality(ItemsOfSale(db, s)) = 2
          /\ db.sales[s].total_profit # 0 /\ db.sales[s].total_amount # 0
          /\ \E i \in ItemsOfSale(db, s) : db.sale_items[i].product_id = resp.id

\* C21: DELETE /api/products/:id, for any id, removes every sale that has no
\* sale_item once the product's items are gone, whether or not the sale ever
\* referenced the product: a sale posted with an empty items list is deleted
\* by the next deletion of any product; the sales that keep an item stay.
C21_EmptySalesDeleted ==
    [][resp'.op = "DELETE /api/products" =>
          /\ \A s \in DOMAIN db.sales :
                ItemsOfSale(db, s) = {} => s \notin DOMAIN db'.sales
          /\ DOMAIN db'.sales =
                {s \in DOMAIN db.sales :
                    \E i \in ItemsOfSale(db, s) :
                       db.sale_items[i].product_id # resp'.id}]_vars

\* The first request posted a sale with no items and the second deleted a
\* product: the sale, which referenced no product, is gone.
C21_Witness ==
    /\ nreq = 2
    /\ resp.op = "DELETE /api/products" /\ resp.status = 200
    /\ db.seq.sales = 1 /\ db.seq.sale_items = 0
    /\ db.sales = EmptyTable

\* C22: DELETE /api/products/:id writes to no sale that survives it: every
\* sale present afterwards was present before with the same total_amount and
\* total_profit, so a sale that had items of the deleted product and of
\* another keeps totals that are no longer the sums over its remaining items.
C22_DeleteProductKeepsTotals ==
    [][resp'.op = "DELETE /api/products" =>
          \A s \in DOMAIN db'.sales :
             LET gone == {i \in ItemsOfSale(db, s) :
                             db.sale_items[i].product_id = resp'.id}
                 left == ItemsOfSale(db', s)
                 amount(d, i) == d.sale_items[i].unit_price * d.sale_items[i].quantity
             IN /\ s \in DOMAIN db.sales
                /\ db'.sales[s] = db.sales[s]
                /\ left = ItemsOfSale(db, s) \ gone
                /\ C20_SaleTotalsMatchItems =>
                      /\ Total([i \in gone |-> amount(db, i)], gone) # 0 =>
                            db'.sales[s].total_amount #
                               Total([i \in left |-> amount(db', i)], left)
                      /\ Total([i \in gone |-> db.sale_items[i].profit], gone) # 0 =>
                            db'.sales[s].total_profit #
                               Total([i \in left |-> db'.sale_items[i].profit],
                                     left)]_vars

\* The first request sold two products in one sale and the second deleted
\* one of them: the sale is still there with one item, and neither of its
\* totals is what that item alone amounts to.
C22_Witness ==
    /\ nreq = 2
    /\ resp.op = "DELETE /api/products" /\ resp.id \in DOMAIN InitProducts
    /\ DOMAIN db.sales = {1} /\ db.seq.sale_items = 2
    /\ \E i \in DOMAIN db.sale_items :
          /\ DOMAIN db.sale_items = {i}
          /\ db.sale_items[i].sale_id = 1
          /\ db.sale_items[i].product_id # resp.id
          /\ db.sales[1].total_profit # db.sale_items[i].profit
          /\ db.sales[1].total_amount #
                db.sale_items[i].unit_price * db.sale_items[i].quantity

ResetDone == resp'.op = "POST /api/reset/daily"

\* C24: POST /api/reset/daily succeeds and deletes exactly the sales created
\* today, the sale_items of those sales and the withdrawals created today;
\* the products (quantity and cost_price included: stock sold or withdrawn
\* today is not returned), the stock_arrivals, the id counters and the
\* sales, sale_items and withdrawals of other days are unchanged.
C24_ResetDailyFrame ==
    [][ResetDone =>
          LET sales == {s \in DOMAIN db.sales : db.sales[s].created_at # today}
              items == {i \in DOMAIN db.sale_items :
                           db.sale_items[i].sale_id \in sales}
              withs == {w \in DOMAIN db.withdrawals :
                           db.withdrawals[w].created_at # today}
          IN /\ resp'.status = 200
             /\ db'.sales = [s \in sales |-> db.sales[s]]
             /\ db'.sale_items = [i \in items |-> db.sale_items[i]]
             /\ db'.withdrawals = [w \in withs |-> db.withdrawals[w]]
             /\ db'.products = db.products
             /\ db'.stock_arrivals = db.stock_arrivals
             /\ db'.seq = db.seq]_vars

\* A sale and a withdrawal were recorded today and the day was reset: both
\* are gone from the tables and the stock that was sold is still missing.
C24_Witness ==
    /\ nreq = 3 /\ today = 1
    /\ resp.op = "POST /api/reset/daily" /\ resp.status = 200
    /\ db.seq.sales = 1 /\ db.seq.sale_items > 0 /\ db.seq.withdrawals = 1
    /\ db.sales = EmptyTable /\ db.sale_items = EmptyTable
    /\ db.withdrawals = EmptyTable
    /\ DOMAIN db.products = DOMAIN InitProducts
    /\ \E p \in DOMAIN db.products : Quantity(db, p) < InitProducts[p].quantity

\* C25: right after POST /api/reset/daily, GET /api/dashboard answers
\* salesCount 0, totalSales 0 and totalProfit 0, whatever sales and
\* withdrawals the day had, and the same lowStockCount as before the reset.
C25_DashboardAfterReset ==
    [][ResetDone =>
          LET before == Dashboard(db, today)
              after  == Dashboard(db', today')
          IN /\ after.salesCount = 0
             /\ after.totalSales = 0
             /\ after.totalProfit = 0
             /\ after.lowStockCount = before.lowStockCount]_vars

\* A sale and a withdrawal were recorded today, the day was reset, and a
\* product stands at or below its minimum stock: the dashboard shows no
\* sale, no amount, no profit, and a low-stock count that is not zero.
C25_Witness ==
    /\ nreq = 3 /\ today = 1
    /\ resp.op = "POST /api/reset/daily" /\ resp.status = 200
    /\ db.seq.sales = 1 /\ db.seq.sale_items > 0 /\ db.seq.withdrawals = 1
    /\ LET view == Dashboard(db, today)
       IN /\ view.salesCount = 0 /\ view.totalSales = 0 /\ view.totalProfit = 0
          /\ view.lowStockCount > 0

\* C26: a POST /api/withdrawals of type 'item' with product_id 0 succeeds,
\* is recorded as a withdrawal row with a NULL product_id and changes no
\* product; and undoing an item withdrawal whose product_id is NULL, right
\* away or later, removes the row and changes no product.
C26_ItemWithdrawalOfNoProduct ==
    [][/\ (/\ resp'.op = "POST /api/withdrawals"
           /\ resp'.req.type = "item" /\ resp'.req.product_id = 0) =>
             LET id == db.seq.withdrawals + 1
             IN /\ resp'.status = 200
                /\ DOMAIN db'.withdrawals = DOMAIN db.withdrawals \cup {id}
                /\ id \notin DOMAIN db.withdrawals
                /\ db'.withdrawals[id].type = "item"
                /\ db'.withdrawals[id].product_id = NULL
                /\ db'.withdrawals[id].amount = resp'.req.amount
                /\ db'.products = db.products
                /\ DeleteWithdrawalHandler(db', id).db.products = db'.products
       /\ (/\ WithdrawalUndone
           /\ db.withdrawals[resp'.id].type = "item"
           /\ db.withdrawals[resp'.id].product_id = NULL) =>
             /\ resp'.status = 200
             /\ resp'.id \notin DOMAIN db'.withdrawals
             /\ db'.products = db.products]_vars

\* An item withdrawal of "no product" was recorded, something else was done,
\* and then the withdrawal was undone: the row read by the undo has type
\* 'item' and a NULL product_id, and the stock is the initial stock.
C26_Witness ==
    /\ nreq = 3
    /\ resp.op = "DELETE /api/withdrawals" /\ resp.status = 200
    /\ \E w \in resp.read : w.type = "item" /\ w.product_id = NULL
    /\ db.withdrawals = EmptyTable /\ db.seq.withdrawals = 1
    /\ db.seq.stock_arrivals = 1
    /\ \A p \in DOMAIN InitProducts :
          /\ p \in DOMAIN db.products
          /\ Quantity(db, p) = InitProducts[p].quantity
                + Total([a \in DOMAIN db.stock_arrivals |->
                           IF db.stock_arrivals[a].product_id = p
                           THEN db.stock_arrivals[a].quantity ELSE 0],
                        DOMAIN db.stock_arrivals)

\* C27: PATCH /api/products/:id succeeds; for an existing product it sets
\* cost_price, selling_price, quantity and min_stock to the request's values
\* (the quantity absolutely, not as an adjustment) and leaves the name and
\* unit_type as they were, also when the body carries a new name; it changes
\* no other product and no ledger row; for an id that names no product it
\* changes nothing.
C27_PatchFrame ==
    [][resp'.op = "PATCH /api/products" =>
          LET id   == resp'.id
              body == resp'.body
          IN /\ resp'.status = 200
             /\ db'.sales = db.sales /\ db'.sale_items = db.sale_items
             /\ db'.withdrawals = db.withdrawals
             /\ db'.stock_arrivals = db.stock_arrivals
             /\ db'.seq = db.seq
             /\ DOMAIN db'.products = DOMAIN db.products
             /\ \A p \in DOMAIN db.products \ {id} :
                   db'.products[p] = db.products[p]
             /\ id \in DOMAIN db.products =>
                   /\ db'.products[id].cost_price = body.cost_price
                   /\ db'.products[id].selling_price = body.selling_price
                   /\ db'.products[id].quantity = body.quantity
                   /\ db'.products[id].min_stock = body.min_stock
                   /\ db'.products[id].name = db.products[id].name
                   /\ db'.products[id].unit_type = db.products[id].unit_type
             /\ id \notin DOMAIN db.products => db' = db]_vars

\* A product that had been sold was patched with a body carrying a new name
\* and a quantity: the product has the body's four numbers, a quantity that
\* is not its former stock adjusted by anything, and its old name.
C27_Witness ==
    /\ resp.op = "PATCH /api/products" /\ resp.status = 200
    /\ resp.id \in DOMAIN db.products
    /\ \E i \in DOMAIN db.sale_items : db.sale_items[i].product_id = resp.id
    /\ LET product == db.products[resp.id]
       IN /\ product.name = InitProducts[resp.id].name
          /\ product.name # resp.body.name
          /\ product.quantity = resp.body.quantity
          /\ product.quantity # InitProducts[resp.id].quantity
          /\ product.cost_price = resp.body.cost_price
          /\ product.selling_price = resp.body.selling_price
          /\ product.min_stock = resp.body.min_stock

LedgerTables == {"sales", "withdrawals", "stock_arrivals"}

\* C28: the ids of sales, withdrawals and stock_arrivals are never reused.
\* The counter of a table never goes down and is at least every id in the
\* table; a row added by a request gets an id above the counter, that is
\* above every id given before, deleted rows included; so an undo repeated
\* for an id that is gone never meets a later entry.
C28_IdsNeverReused ==
    [][\A t \in LedgerTables :
          /\ \A id \in DOMAIN db[t] : id <= db.seq[t]
          /\ \A id \in DOMAIN db'[t] : id <= db'.seq[t]
          /\ db'.seq[t] >= db.seq[t]
          /\ \A id \in DOMAIN db'[t] \ DOMAIN db[t] : id > db.seq[t]]_vars

\* A sale with items was recorded, undone (its stock is back), and another
\* sale recorded: the only sale on record has the id 2, not the id 1 that
\* the undo set free.
C28_Witness ==
    /\ nreq = 3
    /\ resp.op = "POST /api/sales" /\ resp.status = 200 /\ resp.saleId = 2
    /\ DOMAIN db.sales = {2} /\ db.seq.sales = 2
    /\ \A i \in DOMAIN db.sale_items : db.sale_items[i].sale_id = 2
    /\ db.seq.sale_items > Cardinality(DOMAIN db.sale_items)
    /\ DOMAIN db.products = DOMAIN InitProducts
    /\ StockMatchesLedger(db)

\* No two entries of the cart c are for the same product.
OnePerProduct(c) ==
    \A i, j \in DOMAIN c : c[i].product_id = c[j].product_id => i = j

\* C29: the client's cart holds at most one entry per product_id through
\* every addToCart, updateCartItem and removeFromCart call, and so does
\* every checkout request sent; addToCart of a product that is in the cart
\* raises that entry's quantity by 1 and appends nothing, and of a product
\* that is not appends one entry with quantity 1; handleCheckout leaves the
\* cart alone when it sends the request, empties it when the server answers
\* with success and leaves it unchanged when the request fails; nothing but
\* a successful checkout or the removal of its last entry empties the cart.
C29_CartOnePerProduct ==
    [][/\ OnePerProduct(cart) /\ OnePerProduct(cart')
       /\ \A k \in DOMAIN flight' : OnePerProduct(flight'[k].items)
       /\ (resp'.op = "addToCart" /\ nreq' # nreq /\ shown = cart) =>
             IF InCart(cart, resp'.id)
             THEN /\ Len(cart') = Len(cart)
                  /\ \A i \in DOMAIN cart :
                        cart'[i] = IF cart[i].product_id = resp'.id
                                   THEN [cart[i] EXCEPT !.quantity = @ + 1]
                                   ELSE cart[i]
             ELSE /\ Len(cart') = Len(cart) + 1
                  /\ \A i \in DOMAIN cart : cart'[i] = cart[i]
                  /\ cart'[Len(cart')].product_id = resp'.id
                  /\ cart'[Len(cart')].quantity = 1
       /\ (resp'.op = "handleCheckout" /\ nreq' # nreq) =>
             /\ cart' = cart
             /\ resp'.items # <<>>
             /\ OnePerProduct(resp'.items)
       /\ (resp'.op = "checkout answered" /\ flight' # flight) =>
             /\ resp'.ok <=> resp'.status = 200
             /\ cart' = IF resp'.ok THEN <<>> ELSE cart
       /\ (cart # <<>> /\ cart' = <<>>) =>
             \/ resp'.op = "checkout answered" /\ resp'.ok
             \/ resp'.op = "removeFromCart" /\ Len(cart) = 1]_vars

\* A product was added to the cart twice and the cart checked out: the
\* request carried one item with quantity 2, the server recorded one
\* sale_item with that quantity, and the cart, which held the item until
\* the answer, is empty.
C29_Witness ==
    /\ resp.op = "checkout answered" /\ resp.ok
    /\ Len(resp.items) = 1 /\ resp.items[1].quantity = 2
    /\ resp.before = resp.items
    /\ cart = <<>>
    /\ DOMAIN db.sale_items = {1}
    /\ db.sale_items[1].product_id = resp.items[1].product_id
    /\ db.sale_items[1].quantity = 2

====
